---- MODULE Spec2Model ----
(***************************************************************************)
(* scripts/set-rn-version.js: propagation of one version over the source   *)
(* constants, the package manifests and gradle.properties, followed by the *)
(* diff/grep verification against the snapshot taken before the writes.    *)
(*                                                                         *)
(* Text is modelled as a sequence of tokens (a token is one character, or  *)
(* an atomic word such as a key or a placeholder); a file that is diffed   *)
(* is a sequence of lines, each a sequence of tokens.                      *)
(***************************************************************************)
EXTENDS Integers, Sequences, FiniteSets, TLC

VARIABLES
  fs,         \* working directory: the seven artifact files
  templates,  \* scripts/versiontemplates/*.template, read by setSource
  snapshot,   \* content of the tmp versioning folder
  args,       \* [argVersion, dependencyVersions, buildType] of the running call
  version,    \* the record returned by parseVersion
  pc,         \* position of the script
  error,      \* what was thrown, "none" if nothing
  exitCode,   \* process exit status, -1 while the process has not exited
  count,      \* +numberOfChangedLinesWithNewVersion
  warned,     \* the WARNING block was echoed
  log,        \* file-system operations of the running call, in order
  before,     \* fs when the running call was entered
  rerun       \* the running call repeats the arguments of a completed call

vars == <<fs, templates, snapshot, args, version, pc, error, exitCode,
          count, warned, log, before, rerun>>

----------------------------------------------------------------------------
(* Text helpers *)

Range(s) == {s[i] : i \in 1..Len(s)}

\* index of the first occurrence of tok in s, 0 if none
IndexOf(s, tok) ==
  IF tok \in Range(s) THEN CHOOSE i \in 1..Len(s) : s[i] = tok /\ \A j \in 1..(i-1) : s[j] # tok
  ELSE 0

\* String.prototype.replace with a string pattern: the first occurrence only
Replace(s, tok, repl) ==
  LET i == IndexOf(s, tok)
  IN IF i = 0 THEN s ELSE SubSeq(s, 1, i-1) \o repl \o SubSeq(s, i+1, Len(s))

Digits == <<"0", "1", "2", "3", "4", "5", "6", "7", "8", "9">>

\* `${n}` of a number
ToStr(n) == Digits[n+1]

IsDigit(tok) == tok \in Range(Digits)

\* the integer a digit token denotes
ToInt(tok) == (CHOOSE i \in 1..Len(Digits) : Digits[i] = tok) - 1

----------------------------------------------------------------------------
(* version-utils: validateBuildType, parseVersion *)

BuildTypeChoices == {"dry-run", "nightly", "release"}

validateBuildType(buildType) == buildType \in BuildTypeChoices

NoVersion == [ok |-> FALSE, error |-> "none", major |-> 0, minor |-> 0, patch |-> 0,
              prerelease |-> <<>>, version |-> <<>>]

\* MAJOR.MINOR.PATCH[-PRERELEASE]
MatchesGrammar(raw) ==
  /\ Len(raw) \in {5, 7}
  /\ IsDigit(raw[1]) /\ raw[2] = "." /\ IsDigit(raw[3]) /\ raw[4] = "." /\ IsDigit(raw[5])
  /\ Len(raw) = 7 => (raw[6] = "-" /\ ~IsDigit(raw[7]) /\ raw[7] \notin {".", "-"})

\* the build type's policy on the parsed shape; prerelease <<>> is "absent"
PolicyAccepts(prerelease, buildType) ==
  CASE buildType = "release" -> prerelease = <<>> \/ prerelease = <<"rc">>
    [] buildType = "nightly" -> prerelease = <<"nightly">>
    [] OTHER -> TRUE

parseVersion(raw, buildType) ==
  IF ~MatchesGrammar(raw) THEN [NoVersion EXCEPT !.error = "VersionFormatError"]
  ELSE
    LET major == ToInt(raw[1])
        minor == ToInt(raw[3])
        patch == ToInt(raw[5])
        prerelease == IF Len(raw) = 7 THEN <<raw[7]>> ELSE <<>>
    IN IF ~PolicyAccepts(prerelease, buildType)
       THEN [NoVersion EXCEPT !.error = "BuildTypeMismatchError"]
       ELSE [ok |-> TRUE, error |-> "none", major |-> major, minor |-> minor, patch |-> patch,
             prerelease |-> prerelease,
             version |-> <<ToStr(major), ".", ToStr(minor), ".", ToStr(patch)>>
                         \o (IF prerelease = <<>> THEN <<>> ELSE <<"-">> \o prerelease)]

----------------------------------------------------------------------------
(* setSource: the four source-constant renderers *)

Placeholders == {"${major}", "${minor}", "${patch}", "${prerelease}"}

SourceFiles == {"java", "objc", "hpp", "js"}

RenderJava(t, v) ==
  Replace(Replace(Replace(Replace(t,
    "${major}", <<ToStr(v.major)>>),
    "${minor}", <<ToStr(v.minor)>>),
    "${patch}", <<ToStr(v.patch)>>),
    "${prerelease}", IF v.prerelease # <<>> THEN <<"\"">> \o v.prerelease \o <<"\"">> ELSE <<"null">>)

RenderObjC(t, v) ==
  Replace(Replace(Replace(Replace(t,
    "${major}", <<"@(", ToStr(v.major), ")">>),
    "${minor}", <<"@(", ToStr(v.minor), ")">>),
    "${patch}", <<"@(", ToStr(v.patch), ")">>),
    "${prerelease}", IF v.prerelease # <<>> THEN <<"@\"">> \o v.prerelease \o <<"\"">>
                     ELSE <<"[NSNull null]">>)

\* variant: the prerelease is substituted as it is, absent or not
RenderHppUndefined(t, v) ==
  Replace(Replace(Replace(Replace(t,
    "${major}", <<ToStr(v.major)>>),
    "${minor}", <<ToStr(v.minor)>>),
    "${patch}", <<ToStr(v.patch)>>),
    "${prerelease}", IF v.prerelease # <<>> THEN <<"\"">> \o v.prerelease \o <<"\"">> ELSE <<"undefined">>)

RenderHpp(t, v) ==
  Replace(Replace(Replace(Replace(t,
    "${major}", <<ToStr(v.major)>>),
    "${minor}", <<ToStr(v.minor)>>),
    "${patch}", <<ToStr(v.patch)>>),
    "${prerelease}", IF v.prerelease # <<>> THEN <<"\"">> \o v.prerelease \o <<"\"">> ELSE <<"\"\"">>)

RenderJs(t, v) ==
  Replace(Replace(Replace(Replace(t,
    "${major}", <<ToStr(v.major)>>),
    "${minor}", <<ToStr(v.minor)>>),
    "${patch}", <<ToStr(v.patch)>>),
    "${prerelease}", IF v.prerelease # <<>> THEN <<"'">> \o v.prerelease \o <<"'">> ELSE <<"null">>)

\* the literal each format gives an absent prerelease
AbsentLiteral(f) ==
  CASE f = "java" -> "null"
    [] f = "objc" -> "[NSNull null]"
    [] f = "hpp"  -> "\"\""
    [] f = "js"   -> "null"

----------------------------------------------------------------------------
(* package manifests: JSON.parse / JSON.stringify, applyPackageVersions *)

IsSpace(tok) == tok \in {"  ", "    "}

\* number of leading white-space tokens of a line
Depth(line) ==
  IF \A i \in 1..Len(line) : IsSpace(line[i]) THEN Len(line)
  ELSE (CHOOSE i \in 1..Len(line) : ~IsSpace(line[i]) /\ \A j \in 1..(i-1) : IsSpace(line[j])) - 1

\* one manifest line `<indent>"key": "value"` -> entry; depth 1 is a top-level
\* field, depth 2 a field of "dependencies"
ParseLine(line) ==
  LET d == Depth(line)
  IN [sec |-> IF d = 1 THEN "top" ELSE "dependencies",
      key |-> line[d+1],
      val |-> SubSeq(line, d+3, Len(line))]

JSONparse(lines) == [i \in 1..Len(lines) |-> ParseLine(lines[i])]

\* the manifest text with `unit` as the indentation of one level
Format(doc, unit) ==
  [i \in 1..Len(doc) |->
     (IF doc[i].sec = "top" THEN <<unit>> ELSE <<unit, unit>>) \o <<doc[i].key, ":">> \o doc[i].val]

\* JSON.stringify(packageJson, null, 2)
JSONstringify(doc) == Format(doc, "  ")

\* every dependency field named in the overrides takes the override; names the
\* manifest does not have are ignored
applyPackageVersions(doc, overrides) ==
  [i \in 1..Len(doc) |->
     IF doc[i].sec = "dependencies" /\ doc[i].key \in DOMAIN overrides
     THEN [doc[i] EXCEPT !.val = overrides[doc[i].key]]
     ELSE doc[i]]

\* packageJson.version = version
SetVersionField(doc, v) ==
  IF \E i \in 1..Len(doc) : doc[i].sec = "top" /\ doc[i].key = "version"
  THEN [i \in 1..Len(doc) |->
          IF doc[i].sec = "top" /\ doc[i].key = "version" THEN [doc[i] EXCEPT !.val = v] ELSE doc[i]]
  ELSE Append(doc, [sec |-> "top", key |-> "version", val |-> v])

\* variant: the overrides are never applied
setPackageTextNoOverrides(lines, v, dependencyVersions) ==
  JSONstringify(SetVersionField(JSONparse(lines), v.version))

\* the text setPackage writes over packages/react-native/package.json
setPackageText(lines, v, dependencyVersions) ==
  LET originalPackageJson == JSONparse(lines)
      packageJson == IF ~dependencyVersions.isNull
                     THEN applyPackageVersions(originalPackageJson, dependencyVersions.map)
                     ELSE originalPackageJson
  IN JSONstringify(SetVersionField(packageJson, v.version))

\* variant: the entry of the package itself is spread last
templateDependencyVersionsSelfLast(v, dependencyVersions) ==
  LET given == IF ~dependencyVersions.isNull THEN dependencyVersions.map ELSE <<>>
  IN [k \in {"react-native"} \cup DOMAIN given |->
        IF k = "react-native" THEN v.version ELSE given[k]]

\* the version map handed to updateTemplatePackage
templateDependencyVersions(v, dependencyVersions) ==
  LET given == IF ~dependencyVersions.isNull THEN dependencyVersions.map ELSE <<>>
  IN [k \in {"react-native"} \cup DOMAIN given |->
        IF k \in DOMAIN given THEN given[k] ELSE v.version]

\* the text updateTemplatePackage writes over packages/react-native/template/package.json
updateTemplatePackageText(lines, versionMap) ==
  JSONstringify(applyPackageVersions(JSONparse(lines), versionMap))

----------------------------------------------------------------------------
(* gradle.properties: shelljs sed -i /^VERSION_NAME=.*/ *)

IsVersionNameLine(line) == Len(line) > 0 /\ line[1] = "VERSION_NAME="

\* variant: sed without -i, the file is left as it was
sedNotInPlace(file, v) ==
  IF ~file.exists THEN [code |-> 2, file |-> file] ELSE [code |-> 0, file |-> file]

\* sed maps every line through line.replace(regex, replacement) and reports a
\* non-zero code only when the file does not exist
sed(file, v) ==
  IF ~file.exists THEN [code |-> 2, file |-> file]
  ELSE [code |-> 0,
        file |-> [file EXCEPT !.lines =
                    [i \in 1..Len(file.lines) |->
                       IF IsVersionNameLine(file.lines[i])
                       THEN <<"VERSION_NAME=">> \o v.version
                       ELSE file.lines[i]]]]

----------------------------------------------------------------------------
(* verification: diff -r <tmp> . | grep '^[>]' | grep -c <version> *)

VerifiedFiles == {"pkg", "gradle", "tmplPkg"}

\* filesToValidate.length
FilesToValidateLength == Cardinality(VerifiedFiles)

\* variant: every line of the current file, changed or not
AllLines(old, new) == new

\* lines of new that diff prints with '>': those outside a longest common
\* subsequence with old
AddedLines(old, new) ==
  LET m == Len(old)
      n == Len(new)
      L[i \in 1..(m+1), j \in 1..(n+1)] ==
        IF i > m \/ j > n THEN 0
        ELSE IF old[i] = new[j] THEN 1 + L[i+1, j+1]
        ELSE IF L[i+1, j] >= L[i, j+1] THEN L[i+1, j] ELSE L[i, j+1]
      W[i \in 1..(m+1), j \in 1..(n+1)] ==
        IF j > n THEN <<>>
        ELSE IF i > m THEN SubSeq(new, j, n)
        ELSE IF old[i] = new[j] THEN W[i+1, j+1]
        ELSE IF L[i+1, j] >= L[i, j+1] THEN W[i+1, j]
        ELSE <<new[j]>> \o W[i, j+1]
  IN W[1, 1]

\* grep: the pattern is a regular expression, "." stands for any character
GrepMatches(pattern, line) ==
  \E off \in 0..(Len(line) - Len(pattern)) :
    \A i \in 1..Len(pattern) : pattern[i] = "." \/ pattern[i] = line[off + i]

\* changed lines of one file that contain the pattern
ChangedLinesWith(pattern, old, new) ==
  IF ~old.exists \/ ~new.exists THEN 0
  ELSE LET added == AddedLines(old.lines, new.lines)
       IN Cardinality({i \in 1..Len(added) : GrepMatches(pattern, added[i])})

numberOfChangedLinesWithNewVersion(snap, cur, v) ==
  ChangedLinesWith(v.version, snap.pkg, cur.pkg)
  + ChangedLinesWith(v.version, snap.gradle, cur.gradle)
  + ChangedLinesWith(v.version, snap.tmplPkg, cur.tmplPkg)

\* saveFiles(tmpVersioningFolder): copies of the verified files
saveFiles(cur) == [pkg |-> cur.pkg, gradle |-> cur.gradle, tmplPkg |-> cur.tmplPkg]

----------------------------------------------------------------------------
(* Inputs and initial working directory *)

V(a, b, c) == <<ToStr(a), ".", ToStr(b), ".", ToStr(c)>>

\* argVersion strings offered on the command line; the last breaks the grammar
RawVersions == {V(0, 1, 0), V(0, 2, 0), V(0, 1, 0) \o <<"-", "rc">>, <<"0", ".", "1">>}

\* build-type strings offered to the function; "bogus" is not a choice
BuildTypes == BuildTypeChoices \cup {"bogus"}

NullDeps == [isNull |-> TRUE, map |-> <<>>]

Deps(m) == [isNull |-> FALSE, map |-> m]

\* dependencyVersions arguments: null, an override of an ordinary dependency,
\* and a map that also names the package being versioned
DependencyVersionMaps ==
  { NullDeps,
    Deps([k \in {"some-lib"} |-> V(0, 2, 0)]),
    Deps([k \in {"react-native", "some-lib"} |-> IF k = "some-lib" THEN V(0, 1, 0) ELSE V(2, 0, 0)]) }

Arguments ==
  [argVersion : RawVersions, dependencyVersions : DependencyVersionMaps, buildType : BuildTypes]

NoArguments == [argVersion |-> <<>>, dependencyVersions |-> NullDeps, buildType |-> ""]

File(lines) == [exists |-> TRUE, lines |-> lines]

NoFile == [exists |-> FALSE, lines |-> <<>>]

NoSnapshot == [pkg |-> NoFile, gradle |-> NoFile, tmplPkg |-> NoFile]

Field(sec, key, val) == [sec |-> sec, key |-> key, val |-> val]

\* packages/react-native/package.json as found: a version, possibly some-lib,
\* and an unrelated dependency; indented by two or by four spaces
InitialPackageFiles ==
  { File(Format(<<Field("top", "version", v)>> \o d
                \o <<Field("dependencies", "other-lib", o)>>, unit)) :
      v \in {V(9, 9, 9), V(0, 1, 0)},
      d \in {<<>>, <<Field("dependencies", "some-lib", V(1, 0, 0))>>},
      o \in {V(3, 0, 0), V(0, 2, 0)},
      unit \in {"  ", "    "} }

GroupLine == <<"GROUP=", "com.facebook.react">>

\* gradle.properties as found: absent, without a VERSION_NAME line, or with one
InitialGradleFiles ==
  { NoFile, File(<<GroupLine>>) }
  \cup { File(<<<<"VERSION_NAME=">> \o v, GroupLine>>) : v \in {V(9, 9, 9), V(0, 1, 0)} }

\* packages/react-native/template/package.json as found
InitialTemplateFiles ==
  { File(Format(<<Field("top", "name", <<"HelloWorld">>),
                  Field("dependencies", "react-native", V(9, 9, 9))>> \o d, "  ")) :
      d \in {<<>>, <<Field("dependencies", "some-lib", V(1, 0, 0))>>} }

\* scripts/versiontemplates/*.template: every placeholder once
StdTemplate ==
  <<"major", "${major}", "minor", "${minor}", "patch", "${patch}", "prerelease", "${prerelease}">>

StaleSource == <<"stale">>

----------------------------------------------------------------------------
(* The script *)

Logged(op, arg) == [op |-> op, arg |-> arg]

Throw(e) == pc' = "failed" /\ error' = e /\ exitCode' = 1

Init ==
  /\ fs \in [java : {StaleSource}, objc : {StaleSource}, hpp : {StaleSource}, js : {StaleSource},
             pkg : InitialPackageFiles, gradle : InitialGradleFiles, tmplPkg : InitialTemplateFiles]
  /\ templates = [f \in SourceFiles |-> StdTemplate]
  /\ snapshot = NoSnapshot
  /\ args = NoArguments
  /\ version = NoVersion
  /\ pc = "idle"
  /\ error = "none"
  /\ exitCode = -1
  /\ count = 0
  /\ warned = FALSE
  /\ log = <<>>
  /\ before = fs
  /\ rerun = FALSE

\* node scripts/set-rn-version.js -v .. -d .. -b ..
Invoke ==
  /\ pc \in {"idle", "done", "failed"}
  /\ \E a \in Arguments :
       /\ args' = a
       /\ rerun' = (pc = "done" /\ a = args)
  /\ pc' = "validateBuildType"
  /\ before' = fs
  /\ snapshot' = NoSnapshot
  /\ version' = NoVersion
  /\ error' = "none"
  /\ exitCode' = -1
  /\ count' = 0
  /\ warned' = FALSE
  /\ log' = <<>>
  /\ UNCHANGED <<fs, templates>>

ValidateBuildType ==
  /\ pc = "validateBuildType"
  /\ IF validateBuildType(args.buildType)
     THEN pc' = "parseVersion" /\ UNCHANGED <<error, exitCode>>
     ELSE Throw("InvalidBuildTypeError")
  /\ UNCHANGED <<fs, templates, snapshot, args, version, count, warned, log, before, rerun>>

\* variant: the snapshot is taken before the version is parsed
ParseVersionAfterSaveFiles ==
  /\ pc = "parseVersion"
  /\ snapshot' = saveFiles(fs)
  /\ LET v == parseVersion(args.argVersion, args.buildType)
     IN IF v.ok
        THEN version' = v /\ pc' = "setSource" /\ UNCHANGED <<error, exitCode>>
        ELSE Throw(v.error) /\ UNCHANGED version
  /\ UNCHANGED <<fs, templates, args, count, warned, log, before, rerun>>

ParseVersion ==
  /\ pc = "parseVersion"
  /\ LET v == parseVersion(args.argVersion, args.buildType)
     IN IF v.ok
        THEN version' = v /\ pc' = "saveFiles" /\ UNCHANGED <<error, exitCode>>
        ELSE Throw(v.error) /\ UNCHANGED version
  /\ UNCHANGED <<fs, templates, snapshot, args, count, warned, log, before, rerun>>

\* mkdtempSync + saveFiles(tmpVersioningFolder)
SaveFiles ==
  /\ pc = "saveFiles"
  /\ snapshot' = saveFiles(fs)
  /\ log' = Append(log, Logged("saveFiles", <<>>))
  /\ pc' = "setSource"
  /\ UNCHANGED <<fs, templates, args, version, error, exitCode, count, warned, before, rerun>>

SetSource ==
  /\ pc = "setSource"
  /\ fs' = [fs EXCEPT !.java = RenderJava(templates["java"], version),
                      !.objc = RenderObjC(templates["objc"], version),
                      !.hpp = RenderHpp(templates["hpp"], version),
                      !.js = RenderJs(templates["js"], version)]
  /\ log' = log \o <<Logged("write:java", <<>>), Logged("write:objc", <<>>),
                     Logged("write:hpp", <<>>), Logged("write:js", <<>>)>>
  /\ pc' = "setPackage"
  /\ UNCHANGED <<templates, snapshot, args, version, error, exitCode, count, warned, before, rerun>>

SetPackage ==
  /\ pc = "setPackage"
  /\ fs' = [fs EXCEPT !.pkg = File(setPackageText(fs.pkg.lines, version, args.dependencyVersions))]
  /\ log' = Append(log, Logged("write:pkg", <<>>))
  /\ pc' = "updateTemplatePackage"
  /\ UNCHANGED <<templates, snapshot, args, version, error, exitCode, count, warned, before, rerun>>

\* variant: verification follows the template update, setGradle is left out
UpdateTemplatePackageSkipsGradle ==
  /\ pc = "updateTemplatePackage"
  /\ LET versionMap == templateDependencyVersions(version, args.dependencyVersions)
     IN /\ fs' = [fs EXCEPT !.tmplPkg = File(updateTemplatePackageText(fs.tmplPkg.lines, versionMap))]
        /\ log' = Append(log, Logged("write:tmplPkg", versionMap))
  /\ pc' = "verify"
  /\ UNCHANGED <<templates, snapshot, args, version, error, exitCode, count, warned, before, rerun>>

UpdateTemplatePackage ==
  /\ pc = "updateTemplatePackage"
  /\ LET versionMap == templateDependencyVersions(version, args.dependencyVersions)
     IN /\ fs' = [fs EXCEPT !.tmplPkg = File(updateTemplatePackageText(fs.tmplPkg.lines, versionMap))]
        /\ log' = Append(log, Logged("write:tmplPkg", versionMap))
  /\ pc' = "setGradle"
  /\ UNCHANGED <<templates, snapshot, args, version, error, exitCode, count, warned, before, rerun>>

SetGradle ==
  /\ pc = "setGradle"
  /\ LET result == sed(fs.gradle, version)
     IN IF result.code # 0
        THEN /\ Throw("PropertiesUpdateError")
             /\ UNCHANGED <<fs, log>>
        ELSE /\ fs' = [fs EXCEPT !.gradle = result.file]
             /\ log' = Append(log, Logged("write:gradle", <<>>))
             /\ pc' = "verify"
             /\ UNCHANGED <<error, exitCode>>
  /\ UNCHANGED <<templates, snapshot, args, version, count, warned, before, rerun>>

\* variant: warns only when fewer lines than files were found
VerifyAtLeast ==
  /\ pc = "verify"
  /\ LET n == numberOfChangedLinesWithNewVersion(snapshot, fs, version)
     IN /\ count' = n
        /\ warned' = (n < FilesToValidateLength)
  /\ log' = Append(log, Logged("diff", <<>>))
  /\ pc' = "return"
  /\ UNCHANGED <<fs, templates, snapshot, args, version, error, exitCode, before, rerun>>

\* variant: a mismatch restores the verified files from the snapshot
VerifyRollback ==
  /\ pc = "verify"
  /\ LET n == numberOfChangedLinesWithNewVersion(snapshot, fs, version)
     IN /\ count' = n
        /\ warned' = (n # FilesToValidateLength)
        /\ fs' = IF n # FilesToValidateLength
                 THEN [fs EXCEPT !.pkg = snapshot.pkg, !.gradle = snapshot.gradle,
                                 !.tmplPkg = snapshot.tmplPkg]
                 ELSE fs
  /\ log' = Append(log, Logged("diff", <<>>))
  /\ pc' = "return"
  /\ UNCHANGED <<templates, snapshot, args, version, error, exitCode, before, rerun>>

\* exec(diff | grep | grep -c) and the comparison with filesToValidate.length
Verify ==
  /\ pc = "verify"
  /\ LET n == numberOfChangedLinesWithNewVersion(snapshot, fs, version)
     IN /\ count' = n
        /\ warned' = (n # FilesToValidateLength)
  /\ log' = Append(log, Logged("diff", <<>>))
  /\ pc' = "return"
  /\ UNCHANGED <<fs, templates, snapshot, args, version, error, exitCode, before, rerun>>

\* return; exit(0)
Return ==
  /\ pc = "return"
  /\ pc' = "done"
  /\ exitCode' = 0
  /\ UNCHANGED <<fs, templates, snapshot, args, version, error, count, warned, log, before, rerun>>

Next ==
  \/ Invoke
  \/ ValidateBuildType
  \/ ParseVersion
  \/ SaveFiles
  \/ SetSource
  \/ SetPackage
  \/ UpdateTemplatePackage
  \/ SetGradle
  \/ Verify
  \/ Return

Spec == Init /\ [][Next]_vars

----------------------------------------------------------------------------
(* The renderers alone, over arbitrary templates *)

MaxTemplateLen == 3

TemplateTokens == Placeholders \cup {"x"}

TemplatesUpTo(n) == UNION {[1..k -> TemplateTokens] : k \in 0..n}

ValidVersions == {parseVersion(r, "dry-run") : r \in {x \in RawVersions : MatchesGrammar(x)}}

RenderInit ==
  /\ fs \in [java : {StaleSource}, objc : {StaleSource}, hpp : {StaleSource}, js : {StaleSource},
             pkg : {File(<<>>)}, gradle : {NoFile}, tmplPkg : {File(<<>>)}]
  /\ \E f \in SourceFiles, t \in TemplatesUpTo(MaxTemplateLen) :
       templates = [g \in SourceFiles |-> IF g = f THEN t ELSE StdTemplate]
  /\ version \in ValidVersions
  /\ snapshot = NoSnapshot
  /\ args = NoArguments
  /\ pc = "setSource"
  /\ error = "none"
  /\ exitCode = -1
  /\ count = 0
  /\ warned = FALSE
  /\ log = <<>>
  /\ before = fs
  /\ rerun = FALSE

RenderNext == SetSource

SpecRender == RenderInit /\ [][RenderNext]_vars

----------------------------------------------------------------------------
(* Properties *)

\* setGradle has been reached and has acted in the running call
PastSetGradle == version.ok /\ pc \in {"failed", "verify", "return", "done"}

\* setPackage has acted in the running call
PastSetPackage ==
  version.ok /\ pc \in {"updateTemplatePackage", "setGradle", "failed", "verify", "return", "done"}

\* the diff of the running call has been computed
Verified == pc \in {"return", "done"}

HasVersionNameLine(file) == \E i \in 1..Len(file.lines) : IsVersionNameLine(file.lines[i])

Ops == {log[i].op : i \in 1..Len(log)}

ArtifactWrites ==
  {"write:java", "write:objc", "write:hpp", "write:js", "write:pkg", "write:tmplPkg", "write:gradle"}

\* what the render step makes of the working directory b
Propagated(b, v, deps) ==
  [java |-> RenderJava(templates["java"], v),
   objc |-> RenderObjC(templates["objc"], v),
   hpp |-> RenderHpp(templates["hpp"], v),
   js |-> RenderJs(templates["js"], v),
   pkg |-> File(setPackageText(b.pkg.lines, v, deps)),
   gradle |-> sed(b.gradle, v).file,
   tmplPkg |-> File(updateTemplatePackageText(b.tmplPkg.lines, templateDependencyVersions(v, deps)))]

(* C1: when validateBuildType or parseVersion rejects its input, the call has
   written no artifact and taken no snapshot at the moment the error surfaces. *)
C1_FailFastBeforeMutation ==
  (pc = "failed" /\ error \in {"InvalidBuildTypeError", "VersionFormatError", "BuildTypeMismatchError"})
    => (fs = before /\ snapshot = NoSnapshot /\ log = <<>>)

\* a rejected version string, in a working directory an earlier call has versioned
C1_Witness ==
  pc = "failed" /\ error = "VersionFormatError" /\ fs.java # StaleSource

(* C2: when gradle.properties exists but has no line starting with
   VERSION_NAME=, setGradle throws PropertiesUpdateError and the verification
   is never run. *)
C2_MissingLineThrows ==
  (PastSetGradle /\ before.gradle.exists /\ ~HasVersionNameLine(before.gradle))
    => (pc = "failed" /\ error = "PropertiesUpdateError" /\ "diff" \notin Ops)

(* C3 as stated: when no warning is emitted, every file of the verified subset
   changed relative to its snapshot and has a changed line with the new version. *)
C3_FullMatchMeansEveryFileChanged ==
  (Verified /\ ~warned)
    => \A f \in VerifiedFiles :
         /\ fs[f] # snapshot[f]
         /\ ChangedLinesWith(version.version, snapshot[f], fs[f]) >= 1

(* C3 amended: when no warning is emitted, the changed lines that contain the
   new version number exactly as many as the verified subset has files, counted
   over the whole subset, and at least one of its files changed. *)
C3_FullMatchMeansThreeLines ==
  (Verified /\ ~warned)
    => /\ ChangedLinesWith(version.version, snapshot.pkg, fs.pkg)
          + ChangedLinesWith(version.version, snapshot.gradle, fs.gradle)
          + ChangedLinesWith(version.version, snapshot.tmplPkg, fs.tmplPkg)
            = Cardinality(VerifiedFiles)
       /\ \E f \in VerifiedFiles : fs[f] # snapshot[f]

\* a full match although gradle.properties did not change
C3_Witness ==
  Verified /\ ~warned /\ fs.gradle = snapshot.gradle /\ fs.pkg # snapshot.pkg

\* the version map of the updateTemplatePackage call in the log
TemplateCalls == {i \in 1..Len(log) : log[i].op = "write:tmplPkg"}

Given == IF args.dependencyVersions.isNull THEN <<>> ELSE args.dependencyVersions.map

(* C4 as stated: the map passed to updateTemplatePackage has the entry for the
   package itself with value VersionRecord.version, and every caller override. *)
C4_SelfEntryIsVersion ==
  \A i \in TemplateCalls :
    /\ "react-native" \in DOMAIN log[i].arg
    /\ log[i].arg["react-native"] = version.version
    /\ \A k \in DOMAIN Given : k \in DOMAIN log[i].arg /\ log[i].arg[k] = Given[k]

(* C4 amended: the map passed to updateTemplatePackage always has an entry for
   the package itself and every caller override; the entry's value is
   VersionRecord.version unless the caller's map names the package, and then it
   is the caller's value. *)
C4_SelfEntryUnlessOverridden ==
  \A i \in TemplateCalls :
    /\ DOMAIN log[i].arg = {"react-native"} \cup DOMAIN Given
    /\ \A k \in DOMAIN Given : log[i].arg[k] = Given[k]
    /\ "react-native" \notin DOMAIN Given => log[i].arg["react-native"] = version.version

\* the caller's map names react-native with another value than the version
C4_Witness ==
  /\ TemplateCalls # {}
  /\ "react-native" \in DOMAIN Given
  /\ Given["react-native"] # version.version

(* C5: a verification mismatch only warns: the call returns normally with exit
   status 0 and every artifact keeps what the render step wrote. *)
C5_MismatchIsAdvisory ==
  /\ (pc = "return" /\ warned) => (error = "none" /\ fs = Propagated(before, version, args.dependencyVersions))
  /\ (pc = "done" /\ warned)
       => /\ exitCode = 0
          /\ error = "none"
          /\ fs = Propagated(before, version, args.dependencyVersions)

\* a mismatch after writes that changed the verified files
C5_Witness ==
  pc = "done" /\ warned /\ count # 0 /\ fs.pkg # snapshot.pkg /\ fs.gradle # snapshot.gradle

(* C6: in a call that reaches verification the snapshot is the first
   file-system operation, taken of the files as they were on entry, and all
   seven artifact writes precede the diff. *)
C6_SnapshotWritesDiffOrder ==
  /\ Verified => "diff" \in Ops
  /\ \A i \in 1..Len(log) :
       /\ log[i].op \in ArtifactWrites => (log[1].op = "saveFiles" /\ i > 1)
       /\ log[i].op = "diff" =>
            /\ \A w \in ArtifactWrites : \E j \in 1..(i-1) : log[j].op = w
            /\ snapshot = saveFiles(before)
            /\ \A j \in (i+1)..Len(log) : log[j].op \notin ArtifactWrites

C6_Witness == pc = "done" /\ "diff" \in Ops /\ fs # before

\* no placeholder occurs twice in t
EachPlaceholderAtMostOnce(t) ==
  \A i, j \in 1..Len(t) : (t[i] \in Placeholders /\ t[i] = t[j]) => i = j

Rendered == pc = "setPackage"

(* C7 as stated: for every template and every version without prerelease, no
   renderer of setSource leaves a placeholder in its output. *)
C7_NoPlaceholderLeft ==
  (Rendered /\ version.prerelease = <<>>)
    => \A f \in SourceFiles : Range(fs[f]) \cap Placeholders = {}

(* C7 amended: for every template in which each placeholder occurs at most once
   and every version without prerelease, no renderer leaves a placeholder, and
   the prerelease placeholder becomes the format's absent literal. *)
C7_NoPlaceholderLeftWhenUnique ==
  (Rendered /\ version.prerelease = <<>>)
    => \A f \in SourceFiles :
         EachPlaceholderAtMostOnce(templates[f])
           => /\ Range(fs[f]) \cap Placeholders = {}
              /\ Len(fs[f]) >= Len(templates[f])
              /\ \A i \in 1..Len(templates[f]) :
                   templates[f][i] = "${prerelease}"
                     => \E j \in 1..Len(fs[f]) : fs[f][j] = AbsentLiteral(f)

\* a template with all four placeholders rendered for a version without prerelease
C7_Witness ==
  /\ Rendered /\ version.prerelease = <<>>
  /\ \E f \in SourceFiles :
       /\ templates[f] # StdTemplate
       /\ EachPlaceholderAtMostOnce(templates[f])
       /\ "${prerelease}" \in Range(templates[f])
       /\ "${major}" \in Range(templates[f])

(* C8: after setPackage the manifest's version field is the canonical version,
   every dependency field named in dependencyVersions holds the override, and
   every other field keeps its value; with null overrides only the version
   field changes. *)
C8_SetPackageFrame ==
  PastSetPackage =>
    LET pre == JSONparse(before.pkg.lines)
        post == JSONparse(fs.pkg.lines)
    IN /\ Len(post) = Len(pre)
       /\ \A i \in 1..Len(pre) :
            /\ post[i].key = pre[i].key
            /\ post[i].sec = pre[i].sec
            /\ post[i].val =
                 IF pre[i].sec = "top" /\ pre[i].key = "version" THEN version.version
                 ELSE IF pre[i].sec = "dependencies" /\ pre[i].key \in DOMAIN Given THEN Given[pre[i].key]
                 ELSE pre[i].val
       /\ \E i \in 1..Len(post) : post[i].sec = "top" /\ post[i].key = "version"

\* an override of some-lib next to an unrelated dependency
C8_Witness ==
  /\ pc = "updateTemplatePackage"
  /\ \E i, j \in 1..Len(before.pkg.lines) :
       LET pre == JSONparse(before.pkg.lines)
       IN /\ pre[i].key = "some-lib" /\ "some-lib" \in DOMAIN Given /\ pre[i].val # Given["some-lib"]
          /\ pre[j].key = "other-lib" /\ pre[j].sec = "dependencies"

\* the version slot of each verified file holds another version than v, and no
\* other line of these files contains v
HoldsAnotherVersion(b, v) ==
  /\ b.gradle.exists
  /\ Cardinality({i \in 1..Len(b.gradle.lines) : IsVersionNameLine(b.gradle.lines[i])}) = 1
  /\ \E i \in 1..Len(b.pkg.lines) :
       ParseLine(b.pkg.lines[i]).sec = "top" /\ ParseLine(b.pkg.lines[i]).key = "version"
  /\ \E i \in 1..Len(b.tmplPkg.lines) :
       ParseLine(b.tmplPkg.lines[i]).sec = "dependencies" /\ ParseLine(b.tmplPkg.lines[i]).key = "react-native"
  /\ \A f \in VerifiedFiles : \A i \in 1..Len(b[f].lines) : ~GrepMatches(v.version, b[f].lines[i])

\* the number literal that follows the marker in a rendered source file
LiteralAfter(f, text, marker) ==
  LET i == IndexOf(text, marker) IN IF f = "objc" THEN text[i+2] ELSE text[i+1]

(* C9: a valid version, build type dry-run, no overrides, artifacts holding
   another version: the completed call leaves the four source files, the
   manifest's version field and the VERSION_NAME line with the new version,
   and exactly 3 changed lines contain it, so no warning is emitted. *)
C9_ScenarioA ==
  (/\ pc = "done"
   /\ args.buildType = "dry-run"
   /\ args.dependencyVersions.isNull
   /\ HoldsAnotherVersion(before, version))
    => /\ \A f \in SourceFiles :
            /\ LiteralAfter(f, fs[f], "major") = ToStr(version.major)
            /\ LiteralAfter(f, fs[f], "minor") = ToStr(version.minor)
            /\ LiteralAfter(f, fs[f], "patch") = ToStr(version.patch)
            /\ Range(fs[f]) \cap Placeholders = {}
       /\ \E i \in 1..Len(fs.pkg.lines) :
            ParseLine(fs.pkg.lines[i]) = Field("top", "version", version.version)
       /\ \E i \in 1..Len(fs.gradle.lines) :
            fs.gradle.lines[i] = <<"VERSION_NAME=">> \o version.version
       /\ count = 3
       /\ ~warned
       /\ exitCode = 0

C9_Witness ==
  /\ pc = "done"
  /\ args.buildType = "dry-run"
  /\ args.dependencyVersions.isNull
  /\ HoldsAnotherVersion(before, version)
  /\ before.pkg.lines # JSONstringify(JSONparse(before.pkg.lines))

(* C10: a call that repeats the arguments of the call completed just before it
   leaves every artifact as that call left it, finds no changed line, warns,
   and returns normally. *)
C10_SecondRunWarns ==
  /\ rerun => pc # "failed"
  /\ (rerun /\ Verified) => (fs = before /\ count = 0 /\ warned)
  /\ (rerun /\ pc = "done") => (fs = before /\ exitCode = 0)

C10_Witness ==
  rerun /\ pc = "done" /\ ~args.dependencyVersions.isNull /\ HasVersionNameLine(fs.gradle)

====
